---- MODULE Spec2Model ----
(***************************************************************************)
(* Model of the daily long/short rotation bot (ramimaarouf/alpaca).        *)
(*                                                                         *)
(*   src/strategy.py  pure strategy functions (rank_assets, select_targets,*)
(*                    in_cooldown, check_take_profit, ..., evaluate_       *)
(*                    strategy)                                            *)
(*   src/config.py    configuration values and DailyRotationLongShortBot   *)
(*                    (run_daily and its helpers)                          *)
(*                                                                         *)
(* Money amounts are Python floats in the source.  The model keeps every   *)
(* amount as the decimal number of cents the broker or data feed reports   *)
(* and converts it to an IEEE-754 binary64 value where the source does     *)
(* float arithmetic; binary64 values are computed bit for bit (round to    *)
(* nearest, ties to even) over arbitrary-precision naturals.               *)
(***************************************************************************)
EXTENDS Integers, Sequences, FiniteSets, TLC

(***************************************************************************)
(* Arbitrary-precision naturals: sequences of limbs in base 2^15, least    *)
(* significant limb first, without leading (most significant) zero limbs;  *)
(* zero is << >>.  Every intermediate product stays below 2^31.            *)
(***************************************************************************)
LIMB_BITS == 15

RECURSIVE Pow2(_)
Pow2(k) == IF k = 0 THEN 1 ELSE 2 * Pow2(k - 1)

BASE == Pow2(LIMB_BITS)

RECURSIVE BFromNat(_)
BFromNat(n) == IF n = 0 THEN << >> ELSE <<n % BASE>> \o BFromNat(n \div BASE)

RECURSIVE BToNat(_)
BToNat(b) == IF b = << >> THEN 0 ELSE Head(b) + BASE * BToNat(Tail(b))

RECURSIVE BNorm(_)
BNorm(b) == IF b = << >> THEN << >>
            ELSE IF b[Len(b)] = 0 THEN BNorm(SubSeq(b, 1, Len(b) - 1)) ELSE b

RECURSIVE BAddC(_, _, _)
BAddC(a, b, c) ==
    IF a = << >> /\ b = << >> THEN (IF c = 0 THEN << >> ELSE <<c>>)
    ELSE LET x == IF a = << >> THEN 0 ELSE Head(a)
             y == IF b = << >> THEN 0 ELSE Head(b)
             s == x + y + c
         IN  <<s % BASE>> \o BAddC(IF a = << >> THEN a ELSE Tail(a),
                                   IF b = << >> THEN b ELSE Tail(b), s \div BASE)

BAdd(a, b) == BAddC(a, b, 0)

RECURSIVE BSubB(_, _, _)
BSubB(a, b, c) ==
    IF a = << >> THEN << >>
    ELSE LET y == IF b = << >> THEN 0 ELSE Head(b)
             s == Head(a) - y - c
         IN  <<s % BASE>> \o BSubB(Tail(a), IF b = << >> THEN b ELSE Tail(b),
                                   IF s < 0 THEN 1 ELSE 0)

\* a - b for a >= b
BSub(a, b) == BNorm(BSubB(a, b, 0))

RECURSIVE BCmpAt(_, _, _)
BCmpAt(a, b, i) == IF i = 0 THEN 0
                   ELSE IF a[i] # b[i] THEN (IF a[i] < b[i] THEN -1 ELSE 1)
                   ELSE BCmpAt(a, b, i - 1)

\* -1, 0 or 1 as a < b, a = b, a > b
BCmp(a, b) == IF Len(a) # Len(b) THEN (IF Len(a) < Len(b) THEN -1 ELSE 1)
              ELSE BCmpAt(a, b, Len(a))

\* a * x + c for one limb x and a carry c
RECURSIVE BMul1(_, _, _)
BMul1(a, x, c) ==
    IF a = << >> THEN (IF c = 0 THEN << >> ELSE <<c>>)
    ELSE LET t == Head(a) * x + c
         IN  <<t % BASE>> \o BMul1(Tail(a), x, t \div BASE)

RECURSIVE BMul(_, _)
BMul(a, b) == IF a = << >> \/ b = << >> THEN << >>
              ELSE BNorm(BAdd(BMul1(a, Head(b), 0), <<0>> \o BMul(a, Tail(b))))

\* the quotient of a by one limb x, limbs i..1, with remainder r carried in
RECURSIVE BDiv1(_, _, _, _)
BDiv1(a, i, x, r) ==
    IF i = 0 THEN << >>
    ELSE Append(BDiv1(a, i - 1, x, (r * BASE + a[i]) % x), (r * BASE + a[i]) \div x)

RECURSIVE IntBits(_)
IntBits(x) == IF x = 0 THEN 0 ELSE 1 + IntBits(x \div 2)

\* number of significant bits
BBits(a) == IF a = << >> THEN 0 ELSE (Len(a) - 1) * LIMB_BITS + IntBits(a[Len(a)])

\* a * 2^k and floor(a / 2^k)
BShl(a, k) == IF a = << >> THEN << >>
              ELSE [i \in 1..(k \div LIMB_BITS) |-> 0] \o BMul1(a, Pow2(k % LIMB_BITS), 0)
BShr(a, k) ==
    IF k \div LIMB_BITS >= Len(a) THEN << >>
    ELSE LET hi == SubSeq(a, (k \div LIMB_BITS) + 1, Len(a))
         IN  BNorm(BDiv1(hi, Len(hi), Pow2(k % LIMB_BITS), 0))

\* number of trailing zero bits of a > 0
RECURSIVE IntTz(_)
IntTz(x) == IF x % 2 = 1 THEN 0 ELSE 1 + IntTz(x \div 2)
RECURSIVE BTz(_)
BTz(a) == IF Head(a) = 0 THEN LIMB_BITS + BTz(Tail(a)) ELSE IntTz(Head(a))

\* the largest digit g in lo..hi-1 with g * d <= r, given lo * d <= r < hi * d
RECURSIVE QuotDigit(_, _, _, _)
QuotDigit(r, d, lo, hi) ==
    IF hi - lo <= 1 THEN lo
    ELSE LET mid == (lo + hi) \div 2
         IN  IF BCmp(BMul1(d, mid, 0), r) <= 0
             THEN QuotDigit(r, d, mid, hi) ELSE QuotDigit(r, d, lo, mid)

\* long division, limbs i..1 of a: quotient limbs and final remainder
RECURSIVE BDivStep(_, _, _, _)
BDivStep(a, i, d, r) ==
    IF i = 0 THEN [q |-> << >>, r |-> r]
    ELSE LET r1   == BNorm(<<a[i]>> \o r)
             g    == QuotDigit(r1, d, 0, BASE)
             rest == BDivStep(a, i - 1, d, BSub(r1, BMul1(d, g, 0)))
         IN  [q |-> Append(rest.q, g), r |-> rest.r]

\* quotient and remainder of a by d, d > 0
BDivMod(a, d) == LET qr == BDivStep(a, Len(a), d, << >>)
                 IN  [q |-> BNorm(qr.q), r |-> qr.r]

(***************************************************************************)
(* IEEE-754 binary64, non-negative finite normal values: [m, e] stands for *)
(* m * 2^e with m odd (or m = 0, e = 0), so equal values are equal records.*)
(* Every operation computes the exact result and rounds it to MANT bits,   *)
(* to nearest, ties to even: what CPython's float +, -, *, / do.           *)
(***************************************************************************)
MANT == 53

DNorm(m, e) == IF m = << >> THEN [m |-> << >>, e |-> 0]
               ELSE [m |-> BShr(m, BTz(m)), e |-> e + BTz(m)]

DRound(m, e) ==
    IF BBits(m) <= MANT THEN DNorm(m, e)
    ELSE LET k    == BBits(m) - MANT
             q    == BShr(m, k)
             low  == BSub(m, BShl(q, k))
             half == BCmp(low, BShl(<<1>>, k - 1))
             up   == half > 0 \/ (half = 0 /\ q[1] % 2 = 1)
         IN  DNorm(IF up THEN BAdd(q, <<1>>) ELSE q, e + k)

DFromNat(n) == DNorm(BFromNat(n), 0)
DMinE(a, b) == IF a.e < b.e THEN a.e ELSE b.e
DAlign(a, e) == BShl(a.m, a.e - e)

DAdd(a, b) == DRound(BAdd(DAlign(a, DMinE(a, b)), DAlign(b, DMinE(a, b))), DMinE(a, b))
\* a - b for a >= b
DSub(a, b) == DRound(BSub(DAlign(a, DMinE(a, b)), DAlign(b, DMinE(a, b))), DMinE(a, b))
DMul(a, b) == DRound(BMul(a.m, b.m), a.e + b.e)

\* a / b, b > 0: a quotient of at least MANT + 2 bits, then a sticky bit
DDiv(a, b) ==
    LET s  == IF MANT + 2 + BBits(b.m) > BBits(a.m)
              THEN MANT + 2 + BBits(b.m) - BBits(a.m) ELSE 0
        qr == BDivMod(BShl(a.m, s), b.m)
    IN  IF a.m = << >> THEN a
        ELSE DRound(BAdd(BShl(qr.q, 1), IF qr.r = << >> THEN << >> ELSE <<1>>),
                    a.e - b.e - s - 1)

\* -1, 0 or 1 as a < b, a = b, a > b
DCmp(a, b) == BCmp(DAlign(a, DMinE(a, b)), DAlign(b, DMinE(a, b)))

\* int(a): truncation toward zero
DTrunc(a) == IF a.e >= 0 THEN BToNat(BShl(a.m, a.e)) ELSE BToNat(BShr(a.m, 0 - a.e))

\* float("n/d" written as a decimal): the binary64 value nearest to n/d
DDec(n, d) == DDiv(DFromNat(n), DFromNat(d))

\* a decimal amount in cents as the float the program holds
Money(cents) == IF cents % 100 = 0 THEN DFromNat(cents \div 100) ELSE DDec(cents, 100)
\* a fraction written in hundredths in config.py (0.10, 0.30, 1.5) as a float
Fraction(hundredths) == DDec(hundredths, 100)
DOne == DFromNat(1)

(***************************************************************************)
(* Python values: None / present, dict with insertion order, list slices.  *)
(***************************************************************************)
None == << >>
Some(x) == <<x>>
Val(o) == o[1]

\* dict: keys in insertion order and the value of each key
EmptyDict == [keys |-> << >>, val |-> << >>]
Has(d, k) == \E i \in 1..Len(d.keys) : d.keys[i] = k
\* d[k] = v: a new key goes last, an existing key keeps its place
DictSet(d, k, v) ==
    [keys |-> IF Has(d, k) THEN d.keys ELSE Append(d.keys, k),
     val  |-> [x \in {d.keys[i] : i \in 1..Len(d.keys)} \cup {k} |->
                  IF x = k THEN v ELSE d.val[x]]]
\* del d[k]
DictDel(d, k) ==
    [keys |-> SelectSeq(d.keys, LAMBDA x : x # k),
     val  |-> [x \in {d.keys[i] : i \in 1..Len(d.keys)} \ {k} |-> d.val[x]]]
Range(seq) == {seq[i] : i \in 1..Len(seq)}
KeySet(d) == Range(d.keys)

\* a slice index of a list of length n, as list.__getitem__ normalises it
PyIndex(i, n) == IF i < 0 THEN (IF i + n < 0 THEN 0 ELSE i + n)
                 ELSE (IF i > n THEN n ELSE i)
\* seq[lo:hi], 0-based, hi exclusive
PySlice(seq, lo, hi) == SubSeq(seq, PyIndex(lo, Len(seq)) + 1, PyIndex(hi, Len(seq)))
\* seq[:n]
PyHead(seq, n) == PySlice(seq, 0, n)
PyTail_Oldest(seq, n) == PySlice(seq, 0, n)

\* seq[-n:]  (the start index is the integer -n, which is 0 when n = 0)
PyTail(seq, n) == PySlice(seq, 0 - n, Len(seq))

(***************************************************************************)
(* list.sort(key=..., reverse=True) / sorted(..., reverse=True): sorts by  *)
(* key descending and keeps elements of equal key in their original order. *)
(* Modelled as an insertion sort: each element goes after the elements of  *)
(* greater or equal key already placed.  k is the tuple index of the key.  *)
(***************************************************************************)
RECURSIVE InsertDescTies(_, _, _)
InsertDescTies(sorted, x, k) ==
    IF sorted = << >> THEN <<x>>
    ELSE IF Head(sorted)[k] <= x[k] THEN <<x>> \o sorted
    ELSE <<Head(sorted)>> \o InsertDescTies(Tail(sorted), x, k)

RECURSIVE InsertDesc(_, _, _)
InsertDesc(sorted, x, k) ==
    IF sorted = << >> THEN <<x>>
    ELSE IF Head(sorted)[k] < x[k] THEN <<x>> \o sorted
    ELSE <<Head(sorted)>> \o InsertDesc(Tail(sorted), x, k)

RECURSIVE SortDesc(_, _)
SortDesc(seq, k) ==
    IF seq = << >> THEN << >>
    ELSE InsertDesc(SortDesc(SubSeq(seq, 1, Len(seq) - 1), k), seq[Len(seq)], k)

(***************************************************************************)
(* src/config.py: configuration.                                           *)
(***************************************************************************)
WATCHLIST == <<"TQQQ", "SOXL", "UPRO", "BTC-USD">>
Symbols == {WATCHLIST[i] : i \in 1..Len(WATCHLIST)}

SMA_FAST == 20
SMA_SLOW == 50
ROC_PERIOD == 10
TOP_LONGS == 2
BOTTOM_SHORTS == 1
\* fractions, in hundredths: 0.10, 0.30, 1.5
TAKE_PROFIT_PCT == 10
MAX_TRADES_PER_DAY == 10
COOLDOWN_DAYS == 2
MAX_POSITION_PCT == 30
MAX_GROSS_EXPOSURE == 150

\* self.params as __init__ builds it from config.py
DefaultParams ==
    [SMA_FAST |-> SMA_FAST, SMA_SLOW |-> SMA_SLOW, ROC |-> ROC_PERIOD,
     TOP_LONGS |-> TOP_LONGS, BOTTOM_SHORTS |-> BOTTOM_SHORTS,
     TAKE_PROFIT_PCT |-> TAKE_PROFIT_PCT,
     MAX_TRADES_PER_DAY |-> MAX_TRADES_PER_DAY,
     COOLDOWN_DAYS |-> COOLDOWN_DAYS,
     MAX_POSITION_PCT |-> MAX_POSITION_PCT,
     MAX_GROSS_EXPOSURE |-> MAX_GROSS_EXPOSURE]

(***************************************************************************)
(* src/strategy.py                                                         *)
(***************************************************************************)
LONG == "LONG"
SHORT == "SHORT"

\* the score of a record without enough history
SENTINEL_SCORE == 0 - 999

\* dict.get(field, default)
Get(rec, field, default) == IF field \in DOMAIN rec THEN rec[field] ELSE default

\* list of (score, symbol), sorted by score descending
rank_assets(store) ==
    SortDesc([i \in 1..Len(store.keys) |->
                 <<Get(store.val[store.keys[i]], "score", SENTINEL_SCORE),
                   store.keys[i]>>], 1)

\* for item in items: targets[item[k]] = side
RECURSIVE AssignSide(_, _, _, _)
AssignSide(targets, items, k, side) ==
    IF items = << >> THEN targets
    ELSE AssignSide(DictSet(targets, Head(items)[k], side), Tail(items), k, side)

select_targets(ranked, params) ==
    LET top_longs     == PyHead(ranked, params.TOP_LONGS)
        bottom_shorts == PyTail(ranked, params.BOTTOM_SHORTS)
    IN  AssignSide(AssignSide(EmptyDict, top_longs, 2, LONG), bottom_shorts, 2, SHORT)

in_cooldown_Short(last_trade_date, today, cooldown_days) ==
    IF last_trade_date = None THEN FALSE
    ELSE today - Val(last_trade_date) < cooldown_days - 1

\* dates are day numbers; today - last_trade_date < timedelta(days=cooldown_days)
in_cooldown(last_trade_date, today, cooldown_days) ==
    IF last_trade_date = None THEN FALSE
    ELSE today - Val(last_trade_date) < cooldown_days

\* the two take-profit comparisons, in float arithmetic; price and entry in
\* cents, pct in hundredths
TakeProfitLong(price, entry, pct) ==
    DCmp(Money(price), DMul(Money(entry), DAdd(DOne, Fraction(pct)))) >= 0
TakeProfitShort(price, entry, pct) ==
    DCmp(Money(price), DMul(Money(entry), DSub(DOne, Fraction(pct)))) <= 0
TakeProfitHit(pos, price, pct) ==
    \/ pos.side = LONG /\ TakeProfitLong(price, pos.entry_price, pct)
    \/ pos.side = SHORT /\ TakeProfitShort(price, pos.entry_price, pct)

\* store[symbol]["prices"][-1]
LastPrice(store, symbol) ==
    store.val[symbol].prices[Len(store.val[symbol].prices)]

check_take_profit(portfolio, store, params) ==
    SelectSeq(portfolio.positions.keys,
               LAMBDA symbol : TakeProfitHit(portfolio.positions.val[symbol],
                                             LastPrice(store, symbol),
                                             params.TAKE_PROFIT_PCT))

find_positions_to_close(portfolio, targets, store, today, params) ==
    SelectSeq(portfolio.positions.keys,
               LAMBDA symbol :
                  /\ ~Has(targets, symbol)
                  /\ ~in_cooldown(Get(store.val[symbol], "last_trade_date", None),
                                  today, params.COOLDOWN_DAYS))

find_positions_to_open(portfolio, targets, store, today, params) ==
    SelectSeq(targets.keys,
               LAMBDA symbol :
                  /\ ~Has(portfolio.positions, symbol)
                  /\ ~in_cooldown(Get(store.val[symbol], "last_trade_date", None),
                                  today, params.COOLDOWN_DAYS))

\* store[symbol] raises KeyError for a held symbol without a record,
\* ["prices"][-1] raises IndexError for a record without prices
StrategyRaises(store, portfolio) ==
    \E symbol \in KeySet(portfolio.positions) :
        \/ ~Has(store, symbol)
        \/ store.val[symbol].prices = << >>

\* "close" is list(set(...)): its order is the set's, so it is kept as a set
evaluate_strategy(store, portfolio, params, today) ==
    LET ranked  == rank_assets(store)
        targets == select_targets(ranked, params)
        take_profit_closes == check_take_profit(portfolio, store, params)
        rotation_closes    == find_positions_to_close(portfolio, targets, store,
                                                      today, params)
        opens   == find_positions_to_open(portfolio, targets, store, today, params)
    IN  [ranked  |-> ranked,
         targets |-> targets,
         close   |-> Range(take_profit_closes) \cup Range(rotation_closes),
         open    |-> opens]

(***************************************************************************)
(* src/config.py: DailyRotationLongShortBot, helpers of run_daily.         *)
(* A store record is [prices, score, last_close_date, last_trade_date];    *)
(* its 'indicators' snapshot is written and never read, and is left out.   *)
(***************************************************************************)
PRICE_HISTORY == 120

init_record ==
    [prices |-> << >>, score |-> SENTINEL_SCORE,
     last_close_date |-> None, last_trade_date |-> None]

\* the sum of whole amounts (cents divisible by 100), in units
RECURSIVE UnitSum(_)
UnitSum(prices) ==
    IF prices = << >> THEN 0
    ELSE prices[Len(prices)] \div 100 + UnitSum(SubSeq(prices, 1, Len(prices) - 1))

RECURSIVE DFold(_)
DFold(prices) ==
    IF prices = << >> THEN DFromNat(0)
    ELSE DAdd(DFold(SubSeq(prices, 1, Len(prices) - 1)), Money(prices[Len(prices)]))

\* sum of a list of amounts in cents, as floats, left to right.  Whole amounts
\* and their partial sums are integers below 2^53: every addition is exact
\* and the float sum is the float of the integer sum
DSum(prices) ==
    IF \A i \in 1..Len(prices) : prices[i] % 100 = 0
    THEN DFromNat(UnitSum(prices)) ELSE DFold(prices)

\* np.mean: the float sum over the count.  numpy adds pairwise; the model's
\* prices are whole amounts whose partial sums are exact in any order
Mean(prices) == DDiv(DSum(prices), DFromNat(Len(prices)))

\* prices[i] for a negative index i, counted from the end
PyAt(seq, i) == seq[Len(seq) + i + 1]

\* roc as sign and magnitude: (prices[-1] - prices[roc_idx]) / prices[roc_idx]
Roc(prices, roc_idx) ==
    IF 0 - roc_idx > Len(prices) THEN [neg |-> FALSE, abs |-> DFromNat(0)]
    ELSE LET last == Money(PyAt(prices, -1))
             ref  == Money(PyAt(prices, roc_idx))
         IN  IF DCmp(last, ref) >= 0
             THEN [neg |-> FALSE, abs |-> DDiv(DSub(last, ref), ref)]
             ELSE [neg |-> TRUE, abs |-> DDiv(DSub(ref, last), ref)]

\* None when the history is shorter than SMA_SLOW, else the indicators
calculate_indicators(prices, params) ==
    IF Len(prices) < params.SMA_SLOW THEN None
    ELSE LET sma_fast == Mean(PyTail(prices, params.SMA_FAST))
             sma_slow == Mean(PyTail(prices, params.SMA_SLOW))
             roc      == Roc(prices, 0 - params.ROC - 1)
             last     == Money(PyAt(prices, -1))
         IN  Some([sma_fast |-> sma_fast, sma_slow |-> sma_slow, roc |-> roc,
                   score |-> (IF DCmp(last, sma_slow) > 0 THEN 2 ELSE 0)
                             + (IF DCmp(sma_fast, sma_slow) > 0 THEN 1 ELSE 0)
                             + (IF ~roc.neg /\ roc.abs.m # << >> THEN 1 ELSE 0)])

\* strategy.py, lines 12-27 and 31-44.  (a - b) / b as sign and magnitude
Quotient(last, ref) ==
    IF DCmp(last, ref) >= 0
    THEN [neg |-> FALSE, abs |-> DDiv(DSub(last, ref), ref)]
    ELSE [neg |-> TRUE, abs |-> DDiv(DSub(ref, last), ref)]

\* prices[-params["ROC"]] raises IndexError when ROC exceeds the length
compute_indicators_Raises(prices, params) ==
    /\ Len(prices) >= params.SMA_SLOW
    /\ params.ROC > Len(prices)

\* prices[-n] of strategy.py: the index is the integer -n, which is 0 (the
\* first entry) when n = 0
PyNeg(prices, n) == IF n = 0 THEN prices[1] ELSE PyAt(prices, 0 - n)

\* None when the history is shorter than SMA_SLOW, else the indicators
compute_indicators(prices, params) ==
    IF Len(prices) < params.SMA_SLOW THEN None
    ELSE Some([sma_fast |-> DDiv(DSum(PyTail(prices, params.SMA_FAST)),
                                 DFromNat(params.SMA_FAST)),
               sma_slow |-> DDiv(DSum(PyTail(prices, params.SMA_SLOW)),
                                 DFromNat(params.SMA_SLOW)),
               roc      |-> Quotient(Money(PyAt(prices, -1)),
                                     Money(PyNeg(prices, params.ROC)))])

score_asset(prices, indicators) ==
    (IF DCmp(Money(PyAt(prices, -1)), indicators.sma_slow) > 0 THEN 2 ELSE 0)
    + (IF DCmp(indicators.sma_fast, indicators.sma_slow) > 0 THEN 1 ELSE 0)
    + (IF ~indicators.roc.neg /\ indicators.roc.abs.m # << >> THEN 1 ELSE 0)

Bot_in_cooldown_Short(store, params, symbol, today) ==
    IF ~Has(store, symbol) THEN FALSE
    ELSE IF store.val[symbol].last_trade_date = None THEN FALSE
    ELSE today - Val(store.val[symbol].last_trade_date) < params.COOLDOWN_DAYS - 1

\* DailyRotationLongShortBot.in_cooldown; dates are day numbers
Bot_in_cooldown(store, params, symbol, today) ==
    IF ~Has(store, symbol) THEN FALSE
    ELSE IF store.val[symbol].last_trade_date = None THEN FALSE
    ELSE today - Val(store.val[symbol].last_trade_date) < params.COOLDOWN_DAYS

\* int(portfolio_value * MAX_POSITION_PCT / price), at least 0
calculate_position_size(store, params, symbol, portfolio_value) ==
    DTrunc(DDiv(DMul(Money(portfolio_value), Fraction(params.MAX_POSITION_PCT)),
                Money(LastPrice(store, symbol))))

\* total of shares * entry_price over the positions of one side
RECURSIVE SideTotal(_, _, _)
SideTotal(positions, keys, side) ==
    IF keys = << >> THEN DFromNat(0)
    ELSE LET pos  == positions.val[keys[Len(keys)]]
             rest == SideTotal(positions, SubSeq(keys, 1, Len(keys) - 1), side)
         IN  IF pos.side = side
             THEN DAdd(rest, DMul(DFromNat(pos.shares), Money(pos.entry_price)))
             ELSE rest

\* account_ok: get_account() answered; any exception (also the division by a
\* portfolio value of 0) returns True
check_exposure_limits(positions, params, account_ok, portfolio_value) ==
    IF ~account_ok \/ portfolio_value = 0 THEN TRUE
    ELSE DCmp(DDiv(DAdd(SideTotal(positions, positions.keys, LONG),
                        SideTotal(positions, positions.keys, SHORT)),
                   Money(portfolio_value)),
              Fraction(params.MAX_GROSS_EXPOSURE)) < 0

\* lines 351-363: the score of one record
Score(prices, params) ==
    IF calculate_indicators(prices, params) = None THEN SENTINEL_SCORE
    ELSE Val(calculate_indicators(prices, params)).score

\* lines 345-364: the score of every watchlist symbol of the store
ScoreAll(store, params, watchlist) ==
    [store EXCEPT !.val =
        [k \in DOMAIN store.val |->
            IF k \in Range(watchlist)
            THEN [store.val[k] EXCEPT !.score = Score(store.val[k].prices, params)]
            ELSE store.val[k]]]

\* lines 366-370: (symbol, score) of the watchlist symbols of the store,
\* sorted by score descending
Ranking(store, watchlist) ==
    LET present == SelectSeq(watchlist, LAMBDA x : Has(store, x))
    IN  SortDesc([i \in 1..Len(present) |->
                     <<present[i], store.val[present[i]].score>>], 2)

\* lines 374-384
Targets(ranked, params) ==
    AssignSide(AssignSide(EmptyDict, PyHead(ranked, params.TOP_LONGS), 1, LONG),
               PyTail(ranked, params.BOTTOM_SHORTS), 1, SHORT)

(***************************************************************************)
(* The broker (alpaca_trade_api), as run_daily sees it: a ledger of open   *)
(* positions.  A submitted market order fills at the latest close.         *)
(***************************************************************************)
Signed(pos) == IF pos.side = LONG THEN pos.shares ELSE 0 - pos.shares
Abs(x) == IF x < 0 THEN 0 - x ELSE x

BrokerOpen(ledger, symbol, side, shares, price) ==
    IF ~Has(ledger, symbol)
    THEN DictSet(ledger, symbol,
                 [side |-> side, shares |-> shares, entry_price |-> price])
    ELSE LET old == ledger.val[symbol]
             net == Signed(old) + (IF side = LONG THEN shares ELSE 0 - shares)
         IN  IF net = 0 THEN DictDel(ledger, symbol)
             ELSE DictSet(ledger, symbol,
                    [side |-> IF net > 0 THEN LONG ELSE SHORT,
                     shares |-> Abs(net),
                     entry_price |-> IF old.side = side
                                     THEN (old.shares * old.entry_price + shares * price)
                                             \div (old.shares + shares)
                                     ELSE IF Abs(net) <= old.shares
                                          THEN old.entry_price ELSE price])

BrokerClose(ledger, symbol) == DictDel(ledger, symbol)

(***************************************************************************)
(* State.                                                                  *)
(*   params, store_file      the bot's configuration and bot_store.json    *)
(*   ledger, account_value   the broker: open positions, portfolio value   *)
(*   market, today           the day's closes (and backfill) and the date  *)
(*   store ... portfolio_value   self.store and the locals of run_daily    *)
(*   pc, todo                where run_daily is, and what is left of the   *)
(*                           loop it is in                                 *)
(*   orders, start_exposure  history of the run: the order calls made and  *)
(*                           the exposure held when the run started        *)
(*   runs, failures          number of runs started, of failed API calls   *)
(*   call, result            one call of a function of src/strategy.py and *)
(*                           what it returned (SpecStrategy)               *)
(***************************************************************************)
VARIABLES params, store_file, ledger, account_value, market, today,
          store, trades_today, ranked, target, positions, portfolio_value,
          pc, todo, orders, start_exposure, runs, failures,
          call, result

botVars == <<params, store_file, ledger, account_value, market, today,
             store, trades_today, ranked, target, positions, portfolio_value,
             pc, todo, orders, start_exposure, runs, failures>>
stratVars == <<call, result>>
vars == <<params, store_file, ledger, account_value, market, today,
          store, trades_today, ranked, target, positions, portfolio_value,
          pc, todo, orders, start_exposure, runs, failures, call, result>>

NoCall == [fn |-> "none"]
NoResult == [fn |-> "none"]

(***************************************************************************)
(* The environment of run_daily: what the data feed and the broker can     *)
(* answer.  Amounts are in cents.                                          *)
(***************************************************************************)
MaxRuns == 2
MaxGap == 2
MaxFailures == 1

Flat(n, p) == [i \in 1..n |-> p]

\* a market day: the latest close of each symbol (None: no bar) and the
\* closes get_historical_prices returns on first sighting
RisingDay ==
    [close |-> ("TQQQ" :> Some(10500) @@ "SOXL" :> Some(10500)
                @@ "UPRO" :> Some(10000) @@ "BTC-USD" :> Some(10000)),
     hist  |-> ("TQQQ" :> Flat(PRICE_HISTORY, 10000)
                @@ "SOXL" :> Flat(PRICE_HISTORY, 10000)
                @@ "UPRO" :> Flat(PRICE_HISTORY, 10000)
                @@ "BTC-USD" :> Flat(10, 10000))]
SwingDay ==
    [close |-> ("TQQQ" :> Some(11600) @@ "SOXL" :> Some(8900)
                @@ "UPRO" :> Some(10500) @@ "BTC-USD" :> None),
     hist  |-> ("TQQQ" :> Flat(PRICE_HISTORY, 10000)
                @@ "SOXL" :> Flat(PRICE_HISTORY, 10000)
                @@ "UPRO" :> Flat(PRICE_HISTORY, 10000)
                @@ "BTC-USD" :> << >>)]
Markets == {RisingDay, SwingDay}

\* positions held at the broker before the first run
Position(side, shares, entry_price) ==
    [side |-> side, shares |-> shares, entry_price |-> entry_price]
InitialLedgers ==
    {EmptyDict,
     DictSet(EmptyDict, "TQQQ", Position(LONG, 140, 10000)),
     DictSet(DictSet(EmptyDict, "TQQQ", Position(LONG, 10, 10000)),
             "SOXL", Position(SHORT, 10, 10000)),
     DictSet(EmptyDict, "BTC-USD", Position(LONG, 160, 10000))}
AccountValues == {1000000}
MaxTradesChoices == {1, MAX_TRADES_PER_DAY}
CooldownChoices == {0, COOLDOWN_DAYS}

\* whether an API call raises (the wrapper logs the exception and goes on):
\* it may, while the budget of failures lasts
Raises(calls) == IF calls /\ failures < MaxFailures THEN {FALSE, TRUE} ELSE {FALSE}
Failed(raised) == IF raised THEN failures + 1 ELSE failures

\* sum of shares * entry_price, exactly, in cents
RECURSIVE Exposure(_, _)
Exposure(posdict, keys) ==
    IF keys = << >> THEN 0
    ELSE posdict.val[Head(keys)].shares * posdict.val[Head(keys)].entry_price
         + Exposure(posdict, Tail(keys))

\* gross exposure of the positions is below MAX_GROSS_EXPOSURE, exactly
ExposureBelowLimit(posdict, value, prm) ==
    100 * Exposure(posdict, posdict.keys) < prm.MAX_GROSS_EXPOSURE * value

Order(symbol, kind, side, ok) ==
    [symbol |-> symbol, kind |-> kind, side |-> side, ok |-> ok,
     last_before |-> IF Has(store, symbol) THEN store.val[symbol].last_trade_date
                     ELSE None,
     gross_below |-> ExposureBelowLimit(ledger, account_value, params)]

BotIdle ==
    /\ store_file = EmptyDict
    /\ store = EmptyDict
    /\ market = RisingDay
    /\ today = 0
    /\ trades_today = 0
    /\ ranked = << >>
    /\ target = EmptyDict
    /\ positions = EmptyDict
    /\ portfolio_value = 0
    /\ pc = "idle"
    /\ todo = << >>
    /\ orders = << >>
    /\ start_exposure = 0
    /\ runs = 0
    /\ failures = 0

\* after __init__ on a host without bot_store.json
Init ==
    /\ params \in {[DefaultParams EXCEPT !.MAX_TRADES_PER_DAY = m,
                                          !.COOLDOWN_DAYS = c] :
                      m \in MaxTradesChoices, c \in CooldownChoices}
    /\ ledger \in InitialLedgers
    /\ account_value \in AccountValues
    /\ BotIdle
    /\ call = NoCall
    /\ result = NoResult

env == <<params, account_value, market, today, runs, call, result>>

\* main(): a new process loads the store and enters run_daily (lines 98-99,
\* 317-318); the day's market is what the data feed will answer
Start ==
    /\ pc \in {"idle", "crashed"}
    /\ runs < MaxRuns
    /\ runs' = runs + 1
    /\ \E gap \in 1..MaxGap : today' = today + gap
    /\ market' \in Markets
    /\ store' = store_file
    /\ trades_today' = 0
    /\ ranked' = << >>
    /\ target' = EmptyDict
    /\ positions' = EmptyDict
    /\ portfolio_value' = 0
    /\ orders' = << >>
    /\ start_exposure' = 0
    /\ todo' = WATCHLIST
    /\ pc' = "fetch"
    /\ UNCHANGED <<params, store_file, ledger, account_value, failures, call, result>>

\* lines 325-342, one symbol of the watchlist
FetchPrice ==
    /\ pc = "fetch" /\ todo # << >>
    /\ LET symbol == Head(todo)
           bar    == market.close[symbol]
           rec    == IF Has(store, symbol) THEN store.val[symbol]
                     ELSE [init_record EXCEPT !.prices = market.hist[symbol]]
       IN  store' = IF bar = None THEN store
                    ELSE DictSet(store, symbol,
                           [rec EXCEPT
                              !.prices = PyTail(Append(rec.prices, Val(bar)),
                                                PRICE_HISTORY),
                              !.last_close_date = Some(today)])
    /\ todo' = Tail(todo)
    /\ UNCHANGED <<store_file, ledger, trades_today, ranked, target, positions,
                   portfolio_value, pc, orders, start_exposure, failures, env>>

\* lines 344-384: scores, ranking, targets
ScoreAndRank ==
    /\ pc = "fetch" /\ todo = << >>
    /\ store' = ScoreAll(store, params, WATCHLIST)
    /\ ranked' = Ranking(store', WATCHLIST)
    /\ target' = Targets(ranked', params)
    /\ pc' = "positions"
    /\ UNCHANGED <<store_file, ledger, trades_today, positions, portfolio_value,
                   todo, orders, start_exposure, failures, env>>

\* line 386: get_positions() returns the ledger, or {} when the API raises
GetPositions ==
    /\ pc = "positions"
    /\ \E raised \in Raises(TRUE) :
          /\ positions' = IF raised THEN EmptyDict ELSE ledger
          /\ failures' = Failed(raised)
          /\ todo' = positions'.keys
    /\ start_exposure' = Exposure(ledger, ledger.keys)
    /\ pc' = "take_profit"
    /\ UNCHANGED <<store_file, ledger, store, trades_today, ranked, target,
                   portfolio_value, orders, env>>

\* lines 390-409, one held position
TakeProfitStep ==
    /\ pc = "take_profit" /\ todo # << >>
    /\ LET symbol == Head(todo)
           pos    == positions.val[symbol]
           hit    == /\ Has(store, symbol)
                     /\ TakeProfitHit(pos, LastPrice(store, symbol),
                                      params.TAKE_PROFIT_PCT)
       IN  \E raised \in Raises(hit) :
              /\ failures' = Failed(raised)
              /\ IF hit
                 THEN /\ ledger' = IF raised THEN ledger ELSE BrokerClose(ledger, symbol)
                      /\ store' = [store EXCEPT
                                     !.val[symbol].last_trade_date = Some(today)]
                      /\ trades_today' = trades_today + 1
                      /\ positions' = DictDel(positions, symbol)
                      /\ orders' = Append(orders,
                                          Order(symbol, "take_profit", pos.side, ~raised))
                 ELSE UNCHANGED <<ledger, store, trades_today, positions, orders>>
    /\ todo' = Tail(todo)
    /\ UNCHANGED <<store_file, ranked, target, portfolio_value, pc,
                   start_exposure, env>>

\* line 412: list(positions.keys()) of the positions left
TakeProfitDone ==
    /\ pc = "take_profit" /\ todo = << >>
    /\ todo' = positions.keys
    /\ pc' = "rotate"
    /\ UNCHANGED <<store_file, ledger, store, trades_today, ranked, target,
                   positions, portfolio_value, orders, start_exposure, failures, env>>

\* lines 412-421, one held position; self.store[symbol] raises KeyError for a
\* symbol without a record, after the close call: the run ends there and the
\* store is not saved
RotateStep ==
    /\ pc = "rotate" /\ todo # << >>
    /\ LET symbol == Head(todo)
           pos    == positions.val[symbol]
           close  == /\ ~Has(target, symbol)
                     /\ trades_today < params.MAX_TRADES_PER_DAY
                     /\ ~Bot_in_cooldown(store, params, symbol, today)
       IN  \E raised \in Raises(close) :
              /\ failures' = Failed(raised)
              /\ IF close
                 THEN /\ ledger' = IF raised THEN ledger ELSE BrokerClose(ledger, symbol)
                      /\ orders' = Append(orders,
                                          Order(symbol, "rotation", pos.side, ~raised))
                      /\ IF Has(store, symbol)
                         THEN /\ store' = [store EXCEPT
                                     !.val[symbol].last_trade_date = Some(today)]
                              /\ trades_today' = trades_today + 1
                              /\ positions' = DictDel(positions, symbol)
                              /\ todo' = Tail(todo)
                              /\ pc' = pc
                         ELSE /\ pc' = "crashed"
                              /\ todo' = << >>
                              /\ UNCHANGED <<store, trades_today, positions>>
                 ELSE /\ todo' = Tail(todo)
                      /\ UNCHANGED <<ledger, store, trades_today, positions,
                                     orders, pc>>
    /\ UNCHANGED <<store_file, ranked, target, portfolio_value,
                   start_exposure, env>>

\* line 424: get_portfolio_value() returns 0 when the API raises; line 426
RotateDone ==
    /\ pc = "rotate" /\ todo = << >>
    /\ \E raised \in Raises(TRUE) :
          /\ portfolio_value' = IF raised THEN 0 ELSE account_value
          /\ failures' = Failed(raised)
    /\ todo' = target.keys
    /\ pc' = "open"
    /\ UNCHANGED <<store_file, ledger, store, trades_today, ranked, target,
                   positions, orders, start_exposure, env>>

\* lines 426-456, one target symbol
OpenStep ==
    /\ pc = "open" /\ todo # << >>
    /\ LET symbol  == Head(todo)
           capped  == trades_today >= params.MAX_TRADES_PER_DAY
           skipped == Has(positions, symbol)
                      \/ Bot_in_cooldown(store, params, symbol, today)
           gated   == ~capped /\ ~skipped
           shares  == calculate_position_size(store, params, symbol, portfolio_value)
       IN  \E account_raised \in Raises(gated) :
              LET within == check_exposure_limits(positions, params, ~account_raised,
                                                   account_value)
                  opens  == gated /\ within /\ shares > 0
              IN  \E raised \in (IF account_raised THEN {FALSE} ELSE Raises(opens)) :
                     /\ failures' = Failed(account_raised \/ raised)
                     /\ todo' = IF capped \/ (gated /\ ~within) THEN << >>
                                ELSE Tail(todo)
                     /\ IF opens
                        THEN /\ ledger' = IF raised THEN ledger
                                          ELSE BrokerOpen(ledger, symbol,
                                                          target.val[symbol], shares,
                                                          LastPrice(store, symbol))
                             /\ store' = [store EXCEPT
                                     !.val[symbol].last_trade_date = Some(today)]
                             /\ trades_today' = trades_today + 1
                             /\ orders' = Append(orders,
                                   Order(symbol, "open", target.val[symbol], ~raised))
                        ELSE UNCHANGED <<ledger, store, trades_today, orders>>
    /\ UNCHANGED <<store_file, ranked, target, positions, portfolio_value, pc,
                   start_exposure, env>>

\* lines 458-466: the run ends and the store is saved
Finish ==
    /\ pc = "open" /\ todo = << >>
    /\ store_file' = store
    /\ pc' = "idle"
    /\ UNCHANGED <<ledger, store, trades_today, ranked, target, positions,
                   portfolio_value, todo, orders, start_exposure, failures, env>>

Next ==
    \/ Start \/ FetchPrice \/ ScoreAndRank \/ GetPositions
    \/ TakeProfitStep \/ TakeProfitDone \/ RotateStep \/ RotateDone
    \/ OpenStep \/ Finish

Spec == Init /\ [][Next]_vars

(***************************************************************************)
(* Inputs of the strategy functions.                                       *)
(***************************************************************************)
MaxTop == 2
MaxBottom == 2
MaxHeld == 2
StrategyToday == 10

Prefix(n) == SubSeq(WATCHLIST, 1, n)
Injective(seq) == \A i, j \in 1..Len(seq) : i # j => seq[i] # seq[j]
DictOf(keys, f) == [keys |-> keys, val |-> [k \in Range(keys) |-> f[k]]]

\* rank_assets: stores of the first n watchlist symbols, with and without a score
RankRecords ==
    {[prices |-> <<10000>>, last_trade_date |-> None]}
    \cup {[prices |-> <<10000>>, last_trade_date |-> None, score |-> sc] :
             sc \in {SENTINEL_SCORE, 1, 3}}
RankCalls ==
    {[fn |-> "rank_assets", store |-> DictOf(Prefix(n), f)] :
        n \in 0..Len(WATCHLIST), f \in [Symbols -> RankRecords]}

\* select_targets: every list of distinct symbols, TOP_LONGS and
\* BOTTOM_SHORTS from 0 up
RankedLists ==
    {[i \in 1..Len(seq) |-> <<Len(WATCHLIST) - i, seq[i]>>] :
        seq \in {q \in UNION {[1..k -> Symbols] : k \in 0..Len(WATCHLIST)} :
                    Injective(q)}}
SelectCalls ==
    {[fn |-> "select_targets", ranked |-> r,
      params |-> [DefaultParams EXCEPT !.TOP_LONGS = n, !.BOTTOM_SHORTS = m]] :
        r \in RankedLists, n \in 0..MaxTop, m \in 0..MaxBottom}

\* check_take_profit: positions in the first MaxHeld symbols, entry prices and
\* latest prices at and around the two thresholds
NotHeld == [held |-> FALSE, side |-> LONG, entry |-> 10000, price |-> 10000]
Holdings ==
    {NotHeld} \cup
    {[held |-> TRUE, side |-> sd, entry |-> en, price |-> pr] :
        sd \in {LONG, SHORT}, en \in {9000, 10000},
        pr \in {8100, 9000, 9900, 10999, 11000}}
PortfolioOf(keys, h) ==
    [positions |->
        DictOf(SelectSeq(keys, LAMBDA k : h[k].held),
               [k \in Range(keys) |->
                   [side |-> h[k].side, shares |-> 10, entry_price |-> h[k].entry]])]
TakeProfitCalls ==
    {[fn |-> "check_take_profit",
      portfolio |-> PortfolioOf(Prefix(MaxHeld), h),
      store |-> DictOf(Prefix(MaxHeld),
                       [k \in Symbols |-> [prices |-> <<h[k].price>>, score |-> 1,
                                           last_trade_date |-> None]]),
      params |-> DefaultParams] :
        h \in [Range(Prefix(MaxHeld)) -> Holdings]}

\* evaluate_strategy: three symbols; each has a score and is either free
\* (never traded, or traded yesterday) or held (last traded yesterday or
\* COOLDOWN_DAYS ago, entered below or above its take-profit price)
EvalSymbols == <<"TQQQ", "SOXL", "UPRO">>
EvalStates ==
    {[score |-> sc, last |-> lt, held |-> FALSE, entry |-> 10000] :
        sc \in {SENTINEL_SCORE, 2}, lt \in {None, Some(StrategyToday - 1)}}
    \cup
    {[score |-> sc, last |-> Some(StrategyToday - d), held |-> TRUE, entry |-> en] :
        sc \in {SENTINEL_SCORE, 2}, d \in {1, COOLDOWN_DAYS}, en \in {10000, 11000}}
EvaluateCalls ==
    {[fn |-> "evaluate_strategy",
      store |-> DictOf(EvalSymbols,
                       [k \in Range(EvalSymbols) |->
                           [prices |-> <<10000, 11100>>, score |-> e[k].score,
                            last_trade_date |-> e[k].last]]),
      portfolio |->
          [positions |->
              DictOf(SelectSeq(EvalSymbols, LAMBDA k : e[k].held),
                     [k \in Range(EvalSymbols) |->
                         [side |-> LONG, shares |-> 10, entry_price |-> e[k].entry]])],
      params |-> [DefaultParams EXCEPT !.TOP_LONGS = n],
      today |-> StrategyToday] :
        e \in [Range(EvalSymbols) -> EvalStates], n \in 1..2}

\* the indicator functions: short windows over every series of 2 to 4 closes
\* around 100.00 with every lookback up to MaxRoc, and the configured windows
\* over 50 closes of 100.00 with one close of 99.00 or 101.00 near the
\* lookback
MaxRoc == 4
ShortWindows(roc) == [SMA_FAST |-> 2, SMA_SLOW |-> 3, ROC |-> roc]
ConfigWindows == [SMA_FAST |-> SMA_FAST, SMA_SLOW |-> SMA_SLOW, ROC |-> ROC_PERIOD]
ShortSeries == UNION {[1..n -> {9900, 10000, 10100}] : n \in 2..4}
ConfigSeries ==
    {[i \in 1..SMA_SLOW |-> IF i = at THEN p ELSE 10000] :
        at \in {SMA_SLOW - ROC_PERIOD, SMA_SLOW - ROC_PERIOD + 1},
        p \in {9900, 10100}}
IndicatorInputs ==
    {[prices |-> seq, params |-> ShortWindows(roc)] :
        seq \in ShortSeries, roc \in 0..MaxRoc}
    \cup {[prices |-> seq, params |-> ConfigWindows] : seq \in ConfigSeries}
IndicatorCalls ==
    {[fn |-> f, prices |-> inp.prices, params |-> inp.params] :
        f \in {"compute_indicators", "score_asset", "calculate_indicators"},
        inp \in IndicatorInputs}

InitStrategy ==
    /\ call \in RankCalls \cup SelectCalls \cup TakeProfitCalls \cup EvaluateCalls
                \cup IndicatorCalls
    /\ result = NoResult
    /\ params = DefaultParams
    /\ ledger = EmptyDict
    /\ account_value = 0
    /\ BotIdle

RankAssets ==
    /\ call.fn = "rank_assets" /\ result = NoResult
    /\ result' = [fn |-> call.fn, value |-> rank_assets(call.store)]
    /\ UNCHANGED <<call, botVars>>

SelectTargets ==
    /\ call.fn = "select_targets" /\ result = NoResult
    /\ result' = [fn |-> call.fn, value |-> select_targets(call.ranked, call.params)]
    /\ UNCHANGED <<call, botVars>>

CheckTakeProfit ==
    /\ call.fn = "check_take_profit" /\ result = NoResult
    /\ result' = [fn |-> call.fn,
                  value |-> check_take_profit(call.portfolio, call.store, call.params)]
    /\ UNCHANGED <<call, botVars>>

EvaluateStrategy ==
    /\ call.fn = "evaluate_strategy" /\ result = NoResult
    /\ result' = IF StrategyRaises(call.store, call.portfolio)
                 THEN [fn |-> "raised"]
                 ELSE [fn |-> call.fn,
                       value |-> evaluate_strategy(call.store, call.portfolio,
                                                   call.params, call.today)]
    /\ UNCHANGED <<call, botVars>>

ComputeIndicators ==
    /\ call.fn = "compute_indicators" /\ result = NoResult
    /\ result' = IF compute_indicators_Raises(call.prices, call.params)
                 THEN [fn |-> "raised"]
                 ELSE [fn |-> call.fn,
                       value |-> compute_indicators(call.prices, call.params)]
    /\ UNCHANGED <<call, botVars>>

\* score_asset on the indicators compute_indicators gives for the series
ScoreAsset ==
    /\ call.fn = "score_asset" /\ result = NoResult
    /\ result' = IF compute_indicators_Raises(call.prices, call.params)
                 THEN [fn |-> "raised"]
                 ELSE IF compute_indicators(call.prices, call.params) = None
                 THEN [fn |-> "no indicators"]
                 ELSE [fn |-> call.fn,
                       value |-> score_asset(call.prices,
                                    Val(compute_indicators(call.prices, call.params)))]
    /\ UNCHANGED <<call, botVars>>

CalculateIndicators ==
    /\ call.fn = "calculate_indicators" /\ result = NoResult
    /\ result' = [fn |-> call.fn,
                  value |-> calculate_indicators(call.prices, call.params)]
    /\ UNCHANGED <<call, botVars>>

NextStrategy ==
    \/ RankAssets \/ SelectTargets \/ CheckTakeProfit \/ EvaluateStrategy
    \/ ComputeIndicators \/ ScoreAsset \/ CalculateIndicators

SpecStrategy == InitStrategy /\ [][NextStrategy]_vars

(***************************************************************************)
(* Properties of the strategy functions (SpecStrategy).                    *)
(***************************************************************************)
IndexOf(seq, x) == CHOOSE i \in 1..Len(seq) : seq[i] = x
StoredScore(st, symbol) == Get(st.val[symbol], "score", SENTINEL_SCORE)

\* C10: rank_assets returns every symbol of the store exactly once, with its
\* score, ordered by score descending, and symbols of equal score keep the
\* relative order they have in the store.
C10_RankStable ==
    result.fn = "rank_assets" =>
        LET r    == result.value
            keys == call.store.keys
        IN  /\ Len(r) = Len(keys)
            /\ \A k \in Range(keys) :
                  Cardinality({i \in 1..Len(r) : r[i][2] = k}) = 1
            /\ \A i \in 1..Len(r) : r[i][1] = StoredScore(call.store, r[i][2])
            /\ \A i, j \in 1..Len(r) : i < j => r[i][1] >= r[j][1]
            /\ \A i, j \in 1..Len(r) :
                  (i < j /\ r[i][1] = r[j][1])
                     => IndexOf(keys, r[i][2]) < IndexOf(keys, r[j][2])

\* a ranking that had to move a symbol up past others and kept a tie in order
C10_Witness ==
    /\ result.fn = "rank_assets"
    /\ \E i, j \in 1..Len(result.value) :
          /\ i < j /\ result.value[i][1] = result.value[j][1]
    /\ \E i, j \in 1..Len(result.value) :
          /\ i < j
          /\ IndexOf(call.store.keys, result.value[i][2])
                > IndexOf(call.store.keys, result.value[j][2])

\* C6: when TOP_LONGS + BOTTOM_SHORTS <= len(ranked), select_targets maps
\* exactly the first TOP_LONGS ranked symbols to LONG and the last
\* BOTTOM_SHORTS ranked symbols to SHORT, and holds no other symbol.
C6_HeadLongTailShort ==
    (/\ result.fn = "select_targets"
     /\ call.params.TOP_LONGS + call.params.BOTTOM_SHORTS <= Len(call.ranked))
    => LET r      == call.ranked
           n      == call.params.TOP_LONGS
           m      == call.params.BOTTOM_SHORTS
           longs  == {r[i][2] : i \in 1..n}
           shorts == {r[i][2] : i \in (Len(r) - m + 1)..Len(r)}
       IN  /\ KeySet(result.value) = longs \cup shorts
           /\ \A x \in longs : result.value.val[x] = LONG
           /\ \A x \in shorts : result.value.val[x] = SHORT

\* C9: check_take_profit returns a held symbol if and only if it is LONG with
\* price >= entry * (1 + TAKE_PROFIT_PCT) or SHORT with
\* price <= entry * (1 - TAKE_PROFIT_PCT), thresholds included (cents and
\* hundredths: both sides are multiplied by 100).
C9_TakeProfitThreshold ==
    result.fn = "check_take_profit" =>
        \A symbol \in KeySet(call.portfolio.positions) :
            LET pos   == call.portfolio.positions.val[symbol]
                price == LastPrice(call.store, symbol)
                pct   == call.params.TAKE_PROFIT_PCT
            IN  (symbol \in Range(result.value))
                <=> \/ pos.side = LONG /\ price * 100 >= pos.entry_price * (100 + pct)
                    \/ pos.side = SHORT /\ price * 100 <= pos.entry_price * (100 - pct)

\* a held symbol that is absent from the targets and traded fewer than
\* COOLDOWN_DAYS days before today
HeldNonTargetInCooldown(symbol) ==
    /\ Has(call.portfolio.positions, symbol)
    /\ ~Has(result.value.targets, symbol)
    /\ call.store.val[symbol].last_trade_date # None
    /\ call.today - Val(call.store.val[symbol].last_trade_date)
          < call.params.COOLDOWN_DAYS

\* C4 as stated: the close set of evaluate_strategy never contains a held
\* symbol that is absent from the targets and in cooldown.
C4_CloseSetSkipsCooldown ==
    result.fn = "evaluate_strategy" =>
        \A symbol \in result.value.close : ~HeldNonTargetInCooldown(symbol)

\* C4 amended: a held symbol that is absent from the targets and in cooldown
\* is in the close set only when check_take_profit returns it.
C4_CloseInCooldownOnlyByTakeProfit ==
    result.fn = "evaluate_strategy" =>
        \A symbol \in result.value.close :
            HeldNonTargetInCooldown(symbol)
               => symbol \in Range(check_take_profit(call.portfolio, call.store,
                                                     call.params))

\* a held non-target symbol in cooldown, below take-profit, was kept
C4_Witness ==
    /\ result.fn = "evaluate_strategy"
    /\ \E symbol \in KeySet(call.portfolio.positions) :
          /\ HeldNonTargetInCooldown(symbol)
          /\ symbol \notin result.value.close
    /\ result.value.close # {}

(***************************************************************************)
(* Properties of run_daily (Spec).  orders holds the order calls of the    *)
(* current run, each with the symbol's last_trade_date before the call.    *)
(***************************************************************************)
OrderIds == 1..Len(orders)
TradedTooSoon(o) ==
    /\ o.last_before # None
    /\ today - Val(o.last_before) < params.COOLDOWN_DAYS

\* C1: in a run, the number of trades executed (take-profit closes, rotation
\* closes and opens together) never exceeds MAX_TRADES_PER_DAY.
C1_TradeCap == trades_today <= params.MAX_TRADES_PER_DAY

\* C2: every position is opened only while the gross exposure of all positions
\* open at that moment (those opened earlier in the run included, those
\* closed excluded) is below MAX_GROSS_EXPOSURE.
C2_OpenBelowExposure ==
    \A i \in OrderIds : orders[i].kind = "open" => orders[i].gross_below

\* C3 as stated: no order (take-profit close, rotation close or open) is
\* submitted for a symbol whose last trade was fewer than COOLDOWN_DAYS days ago.
C3_NoOrderInCooldown ==
    \A i \in OrderIds : ~TradedTooSoon(orders[i])

\* C3 amended: no rotation close and no open is submitted for a symbol whose
\* last trade was fewer than COOLDOWN_DAYS days ago (take-profit closes are
\* not held back by the cooldown).
C3_NoRotationOrOpenInCooldown ==
    \A i \in OrderIds :
        orders[i].kind \in {"rotation", "open"} => ~TradedTooSoon(orders[i])

\* a finished later run left alone a target that is not in its positions and
\* was traded in an earlier run, fewer than COOLDOWN_DAYS days ago
C3_Witness ==
    /\ pc = "idle" /\ runs > 1
    /\ \E symbol \in KeySet(target) :
          /\ ~Has(positions, symbol)
          /\ store.val[symbol].last_trade_date # None
          /\ Val(store.val[symbol].last_trade_date) < today
          /\ today - Val(store.val[symbol].last_trade_date) < params.COOLDOWN_DAYS
          /\ \A i \in OrderIds : orders[i].symbol # symbol
    /\ \E i \in OrderIds : orders[i].kind = "open"

\* C5: a symbol whose price history is shorter than SMA_SLOW never becomes a
\* target and no position is opened for it.
C5_ShortHistoryNotTargeted ==
    /\ \A symbol \in KeySet(target) :
          Len(store.val[symbol].prices) >= params.SMA_SLOW
    /\ \A i \in OrderIds :
          orders[i].kind = "open"
             => Len(store.val[orders[i].symbol].prices) >= params.SMA_SLOW

\* C7: when the broker call of an order fails, the symbol's last_trade_date
\* stays what it was and the run's trade count is not incremented.
C7_TradeDateOnlyOnSuccess ==
    /\ \A i \in OrderIds :
          (~orders[i].ok /\ Has(store, orders[i].symbol))
             => store.val[orders[i].symbol].last_trade_date = orders[i].last_before
    /\ trades_today <= Cardinality({i \in OrderIds : orders[i].ok})

\* C8: with portfolio value 10000, MAX_GROSS_EXPOSURE 1.5 and held positions
\* of total exposure 14000, the run opens no position.
C8_ExposureGate ==
    (/\ account_value = 1000000
     /\ params.MAX_GROSS_EXPOSURE = 150
     /\ start_exposure = 1400000)
    => \A i \in OrderIds : orders[i].kind # "open"

(***************************************************************************)
(* The stored price series                                                 *)
(***************************************************************************)
\* the newest n entries of a series, oldest first
Newest(seq, n) ==
    LET k == IF Len(seq) > n THEN n ELSE Len(seq)
    IN  [i \in 1..k |-> seq[Len(seq) - k + i]]

\* the series of a symbol in a store (empty when the store has no record)
SeriesOf(st, symbol) == IF Has(st, symbol) THEN st.val[symbol].prices ELSE << >>

\* the symbol whose close the step appends, if the step is a price update
\* with a bar
Appends(symbol) ==
    /\ pc = "fetch" /\ todo # << >> /\ Head(todo) = symbol
    /\ market.close[symbol] # None

\* C11: every stored price series has at most 120 entries and is the newest
\* 120 of the closes appended to it, in the order they were appended: a price
\* update turns the series (on first sighting: the backfill) into the newest
\* 120 of itself followed by the latest close, dropping only from the front;
\* no other step of a run changes a series; a run starts from the saved
\* series and saves the series it ends with.
C11_PriceSeriesNewest120 ==
    [][\A symbol \in Symbols :
          /\ Len(SeriesOf(store', symbol)) <= 120
          /\ Len(SeriesOf(store_file', symbol)) <= 120
          /\ Appends(symbol) =>
                /\ Has(store', symbol)
                /\ SeriesOf(store', symbol) =
                      Newest(Append(IF Has(store, symbol)
                                    THEN SeriesOf(store, symbol)
                                    ELSE market.hist[symbol],
                                    Val(market.close[symbol])), 120)
          /\ (~Appends(symbol) /\ pc \notin {"idle", "crashed"}) =>
                SeriesOf(store', symbol) = SeriesOf(store, symbol)
          /\ pc \in {"idle", "crashed"} =>
                SeriesOf(store', symbol) = SeriesOf(store_file, symbol)
          /\ SeriesOf(store_file', symbol) # SeriesOf(store_file, symbol) =>
                SeriesOf(store_file', symbol) = SeriesOf(store, symbol)]_vars

\* a full series that lost its two oldest entries: the second run appended
\* 116.00 after the first run's 105.00 to a 120-entry backfill of 100.00
C11_Witness ==
    /\ runs = 2 /\ Has(store, "TQQQ")
    /\ Len(store.val["TQQQ"].prices) = 120
    /\ store.val["TQQQ"].prices[1] = 10000
    /\ store.val["TQQQ"].prices[119] = 10500
    /\ store.val["TQQQ"].prices[120] = 11600

(***************************************************************************)
(* The two indicator implementations                                       *)
(***************************************************************************)
\* ROC against the price lookback observations before the latest, 0 when the
\* series has no such observation
ReferenceRoc(prices, lookback) ==
    IF lookback + 1 > Len(prices) THEN [neg |-> FALSE, abs |-> DFromNat(0)]
    ELSE Quotient(Money(prices[Len(prices)]),
                  Money(prices[Len(prices) - lookback]))

\* C12: for a series of at least SMA_SLOW closes and a lookback >= 0,
\* compute_indicators and calculate_indicators both return, without raising,
\* the ROC against the price at position len-1-ROC (0 when that position is
\* outside the series), and score_asset gives the score calculate_indicators
\* gives for the same series.
C12_SameRocSameScore ==
    (/\ call.fn \in {"compute_indicators", "score_asset", "calculate_indicators"}
     /\ Len(call.prices) >= call.params.SMA_SLOW
     /\ result # NoResult)
    => /\ result.fn # "raised"
       /\ call.fn \in {"compute_indicators", "calculate_indicators"} =>
             Val(result.value).roc = ReferenceRoc(call.prices, call.params.ROC)
       /\ call.fn = "score_asset" =>
             result.value = Val(calculate_indicators(call.prices, call.params)).score

(***************************************************************************)
(* Closes and opens of one run                                             *)
(***************************************************************************)
\* C13: in a single run of run_daily no symbol is both closed (by take-profit
\* or rotation) and opened, whatever COOLDOWN_DAYS >= 0 is.
C13_NoCloseThenOpen ==
    \A i, j \in OrderIds :
        ~(/\ orders[i].kind \in {"take_profit", "rotation"}
          /\ orders[j].kind = "open"
          /\ orders[i].symbol = orders[j].symbol)

====
